---- MODULE Spec2Model ----
(***************************************************************************)
(* Model of the tariff projection engine of the energy usage predictor     *)
(* (App.jsx): calculateTariffBands and calculateProjection, with the React *)
(* state they read and write.                                              *)
(*                                                                         *)
(* Numbers.  JavaScript numbers are modelled in exact decimal fixed point: *)
(*   - a rate (pence) is an integer number of hundredths of a penny,       *)
(*   - a usage (kWh) is an integer,                                        *)
(*   - peakUsage / offPeakUsage are integers in hundredths of a kWh,       *)
(*   - a month's cost is an integer number of millionths of a pound,       *)
(*   - a rounded cost (2 decimals) is an integer number of pence,          *)
(*   - the running total is a pair (cents, micros) so that it does not     *)
(*     overflow: its value is cents/100 + micros/1000000 pounds.           *)
(* IEEE-754 representation error is not modelled: the model rounds the     *)
(* exact decimal value.                                                    *)
(***************************************************************************)
EXTENDS Integers, Sequences, FiniteSets, TLC

VARIABLES
    monthlyUsageProjectionBasis, \* text of the usage field: a sequence of characters
    peakPercentage,
    nMonths,
    currentMonth,
    isFixedCharge,
    fixedRates,
    currentTariffBand,
    tariffQuarters,
    projectedUsage,
    projectedCosts,
    totalProjectedCost,
    error,
    bandsPending,                \* the tariff band effect is scheduled
    projPending,                 \* the recalculation effect is scheduled
    cp,                          \* frame of calculateProjection (its locals)
    tb,                          \* frame of calculateTariffBands (its locals)
    loading,
    sessionName,
    savedSessions,
    modalTitle,                  \* modalContent.title while showModal, else NoModal
    storage,                     \* localStorage: the items energySessions and geminiApiKey
    currentTariffBandRef,        \* identity of the object held by currentTariffBand
    tariffQuartersRef,           \* identity of the band objects held by tariffQuarters
    fixedRatesRef,               \* identity of the object held by fixedRates
    uncaught,                    \* the exception the last event handler let escape
    events,                      \* number of user events so far
    geminiApiKey,
    showApiKeyModal,
    llmLoading,
    usageTips,
    comparisonSummary,
    selectedSession1,
    selectedSession2,
    aiRequest,                   \* the AI call whose fetch is in flight
    aiResponse,                  \* the outcome of the last fetch
    tipsPrompt                   \* what the prompt of the latest tips request quotes

vars == << monthlyUsageProjectionBasis, peakPercentage, nMonths, currentMonth,
           isFixedCharge, fixedRates, currentTariffBand, tariffQuarters,
           projectedUsage, projectedCosts, totalProjectedCost, error,
           bandsPending, projPending, cp, tb,
           loading, sessionName, savedSessions, modalTitle, storage,
           currentTariffBandRef, tariffQuartersRef, fixedRatesRef, uncaught, events,
           geminiApiKey, showApiKeyModal, llmLoading, usageTips, comparisonSummary,
           selectedSession1, selectedSession2, aiRequest, aiResponse, tipsPrompt >>

inputVars == << monthlyUsageProjectionBasis, peakPercentage, nMonths, currentMonth,
                isFixedCharge, fixedRates, currentTariffBand >>

outputVars == << projectedUsage, projectedCosts, totalProjectedCost, error >>

\* the session list, its storage and what the session handlers touch besides
sessionVars == << loading, sessionName, savedSessions, modalTitle, storage, uncaught,
                  events >>

\* the identities of the objects that saved sessions can share with the state
refVars == << currentTariffBandRef, tariffQuartersRef, fixedRatesRef >>

\* the texts the AI calls produce
aiTexts == << usageTips, comparisonSummary >>

\* the rest of the state of the AI features and of the comparison
aiVars == << geminiApiKey, showApiKeyModal, llmLoading, selectedSession1,
             selectedSession2, aiRequest, aiResponse, tipsPrompt >>

-----------------------------------------------------------------------------
(* Bounds of the model *)

MaxMonths == 13

\* a horizon that runs past February of the third year after the reference year
LongHorizon == 38

-----------------------------------------------------------------------------
(* Fixed-point scales and program constants *)

\* Two decimals: Math.round(x * 100) / 100, toFixed(2), pence per pound, percent.
Hundred == 100

\* Hundredths of a pound (cents) to millionths of a pound.
MicrosPerCent == Hundred * Hundred

\* seasonalMultiplier.winter = 1.1, in hundredths
WinterMultiplier == 110

\* seasonalMultiplier.summer = 0.95, in hundredths
SummerMultiplier == 95

\* baseIncrease.* = 0.5 pence per quarter, in hundredths of a penny
BaseIncrease == 50

\* the reference year of new Date(2025, i + 1, 0)
ReferenceYear == 2025

NoError == "null"
EmptyBasisError == "Monthly Usage Projection Basis cannot be empty."
LoadError == "Failed to load saved data from local storage."
SaveError == "Failed to save session to local storage."
CompareSelectionError == "Please select two sessions to compare."

\* no modal is shown (showModal is false)
NoModal == "none"
MissingNameModal == "Missing Name"
SessionSavedModal == "Session Saved!"

\* no exception has escaped from an event handler
NoException == "none"

\* the identity of an object that no saved session holds
NoRef == 0

-----------------------------------------------------------------------------
(* Records *)

Rates(peak, standing, offPeak) ==
    [peakUnitRate |-> peak, standingCharge |-> standing, offPeakUnitRate |-> offPeak]

Band(name, peak, standing, offPeak) ==
    [name |-> name, peakUnitRate |-> peak, standingCharge |-> standing,
     offPeakUnitRate |-> offPeak]

\* useState of fixedRates
InitialFixedRates == Rates(2500, 5000, 1200)

\* useState of currentTariffBand
InitialCurrentTariffBand == Rates(2700, 5500, 1500)

\* useState of tariffQuarters
InitialTariffQuarters ==
    << Band("Current Month", 2700, 5500, 1500),
       Band("Next Quarter", 2750, 5550, 1550),
       Band("Following Quarter", 2800, 5600, 1600) >>

-----------------------------------------------------------------------------
(* The usage text and its conversion: split(",").map(Number).filter(!isNaN) *)

Digits == << "0", "1", "2", "3", "4", "5", "6", "7", "8", "9" >>

IsDigit(c) == \E d \in 1..Len(Digits) : Digits[d] = c

DigitValue(c) == (CHOOSE d \in 1..Len(Digits) : Digits[d] = c) - 1

\* A JavaScript number that is either NaN or an integer.
NaN == [nan |-> TRUE, value |-> 0]

Num(v) == [nan |-> FALSE, value |-> v]

isNaN(n) == n.nan

\* String.prototype.split(","): the fields between the commas; a text without a
\* comma, the empty text included, is one field.
Split(text) ==
    LET commas == { k \in 1..Len(text) : text[k] = "," }
        n == Cardinality(commas)
        CommaAt(j) == IF j = 0 THEN 0
                      ELSE IF j = n + 1 THEN Len(text) + 1
                      ELSE CHOOSE p \in commas :
                               Cardinality({ q \in commas : q <= p }) = j
    IN  [j \in 1..(n + 1) |-> SubSeq(text, CommaAt(j - 1) + 1, CommaAt(j) - 1)]

RECURSIVE TrimLeft(_)
TrimLeft(s) ==
    IF s # << >> /\ Head(s) = " " THEN TrimLeft(Tail(s)) ELSE s

RECURSIVE TrimRight(_)
TrimRight(s) ==
    IF s # << >> /\ s[Len(s)] = " " THEN TrimRight(SubSeq(s, 1, Len(s) - 1)) ELSE s

Trim(s) == TrimRight(TrimLeft(s))

RECURSIVE DecimalValue(_)
DecimalValue(s) ==
    IF s = << >> THEN 0
    ELSE DecimalValue(SubSeq(s, 1, Len(s) - 1)) * 10 + DigitValue(s[Len(s)])

AllDigits(s) == s # << >> /\ \A k \in 1..Len(s) : IsDigit(s[k])

\* Number(string) (StringToNumber): white space is stripped, the empty string is 0,
\* an optionally signed run of decimal digits is its value, anything else is NaN.
Number(field) ==
    LET s == Trim(field)
    IN  IF s = << >> THEN Num(0)
        ELSE IF AllDigits(s) THEN Num(DecimalValue(s))
        ELSE IF Head(s) = "-" /\ AllDigits(Tail(s)) THEN Num(0 - DecimalValue(Tail(s)))
        ELSE IF Head(s) = "+" /\ AllDigits(Tail(s)) THEN Num(DecimalValue(Tail(s)))
        ELSE NaN

\* .map(Number)
MapNumber(fields) == [k \in 1..Len(fields) |-> Number(fields[k])]

\* .filter((n) => !isNaN(n)), the values kept in order
RECURSIVE FilterNotNaN(_)
FilterNotNaN(ns) ==
    IF ns = << >> THEN << >>
    ELSE IF isNaN(Head(ns)) THEN FilterNotNaN(Tail(ns))
    ELSE << Head(ns).value >> \o FilterNotNaN(Tail(ns))

\* usageBasis of calculateProjection
UsageBasisOf(text) == FilterNotNaN(MapNumber(Split(text)))

-----------------------------------------------------------------------------
(* Usage texts of the model *)

\* "200, 180, 220, 300, 350, 400, 420, 380, 300, 250, 200, 180" (the useState default)
DefaultUsageText ==
    << "2","0","0",",", " ","1","8","0",",", " ","2","2","0",",",
       " ","3","0","0",",", " ","3","5","0",",", " ","4","0","0",",",
       " ","4","2","0",",", " ","3","8","0",",", " ","3","0","0",",",
       " ","2","5","0",",", " ","2","0","0",",", " ","1","8","0" >>

\* "100"
TextSingle == << "1","0","0" >>

\* ""
TextEmpty == << >>

\* "kWh, x"
TextNoNumber == << "k","W","h",","," ","x" >>

\* "100,x,7"
TextWithLetters == << "1","0","0",",","x",",","7" >>

\* "100, ,7,"
TextWithBlanks == << "1","0","0",","," ",",","7","," >>

\* "-5,40"
TextNegative == << "-","5",",","4","0" >>

UsageTexts == { DefaultUsageText, TextSingle, TextEmpty, TextNoNumber,
                TextWithLetters, TextWithBlanks, TextNegative }

-----------------------------------------------------------------------------
(* calculateTariffBands *)

\* a winter test that leaves out the first and the last winter month
isWinterMonthStrict(month) == month > 10 \/ month < 3

\* Winter months: Oct, Nov, Dec, Jan, Feb, Mar
isWinterMonth(month) == month >= 10 \/ month <= 3

\* a future month that is one quarter ahead for every band
FutureMonthOneQuarter(month, i) == ((month - 1 + 3) % 12) + 1

\* ((currentMonth - 1 + (i * 3)) % 12) + 1
FutureMonth(month, i) == ((month - 1 + (i * 3)) % 12) + 1

\* isWinter ? seasonalMultiplier.winter : seasonalMultiplier.summer
Multiplier(isWinter) == IF isWinter THEN WinterMultiplier ELSE SummerMultiplier

\* Math.round(x): the nearest integer, a tie going up; x is num / den, den > 0.
MathRound(num, den) == (2 * num + den) \div (2 * den)

\* a seasonal rate whose increase does not grow with the quarter
SeasonalRateFlatIncrease(rate, i, multiplier) ==
    MathRound((rate + BaseIncrease) * multiplier, Hundred)

\* Math.round((rate + (baseIncrease * i)) * multiplier * 100) / 100, the rate and
\* the result in hundredths of a penny, the multiplier in hundredths.
SeasonalRate(rate, i, multiplier) ==
    MathRound((rate + (BaseIncrease * i)) * multiplier, Hundred)

\* a first band that is given the increase of a quarter
CurrentMonthBandIncreased(current) ==
    Band("Current Month", current.peakUnitRate + BaseIncrease,
         current.standingCharge + BaseIncrease, current.offPeakUnitRate + BaseIncrease)

\* { name: "Current Month", ...currentTariffBand }
CurrentMonthBand(current) ==
    Band("Current Month", current.peakUnitRate, current.standingCharge,
         current.offPeakUnitRate)

\* the band object built in the loop body
FutureBand(current, i, multiplier) ==
    Band(IF i = 1 THEN "Next Quarter" ELSE "Following Quarter",
         SeasonalRate(current.peakUnitRate, i, multiplier),
         SeasonalRate(current.standingCharge, i, multiplier),
         SeasonalRate(current.offPeakUnitRate, i, multiplier))

\* the bands calculateTariffBands derives from a current band in a month: the
\* result of its loop
DerivedBands(current, month) ==
    << CurrentMonthBand(current),
       FutureBand(current, 1, Multiplier(isWinterMonth(FutureMonth(month, 1)))),
       FutureBand(current, 2, Multiplier(isWinterMonth(FutureMonth(month, 2)))) >>

IdleBandsFrame ==
    [pc |-> "idle", i |-> 0, bands |-> << >>, futureMonth |-> 0,
     isWinter |-> FALSE, multiplier |-> 0]

\* const bands = []; bands.push({ name: "Current Month", ...currentTariffBand });
CalcBandsBegin ==
    /\ bandsPending
    /\ tb.pc # "loop"
    /\ tb' = [IdleBandsFrame EXCEPT !.pc = "loop", !.i = 1,
                                    !.bands = << CurrentMonthBand(currentTariffBand) >>]
    /\ UNCHANGED << inputVars, tariffQuarters, outputVars, bandsPending, projPending, cp,
                    sessionVars, refVars, aiTexts, aiVars >>

\* one turn of for (let i = 1; i <= 2; i++)
CalcBandsIter ==
    /\ tb.pc = "loop"
    /\ tb.i <= 2
    /\ LET futureMonth == FutureMonth(currentMonth, tb.i)
           isWinter == isWinterMonth(futureMonth)
           multiplier == Multiplier(isWinter)
       IN  tb' = [tb EXCEPT !.futureMonth = futureMonth,
                            !.isWinter = isWinter,
                            !.multiplier = multiplier,
                            !.bands = Append(@, FutureBand(currentTariffBand, tb.i, multiplier)),
                            !.i = @ + 1]
    /\ UNCHANGED << inputVars, tariffQuarters, outputVars, bandsPending, projPending, cp,
                    sessionVars, refVars, aiTexts, aiVars >>

\* setTariffQuarters(bands); the new array reschedules the recalculation effect
CalcBandsCommit ==
    /\ tb.pc = "loop"
    /\ tb.i > 2
    /\ tariffQuarters' = tb.bands
    /\ tb' = [tb EXCEPT !.pc = "done"]
    /\ bandsPending' = FALSE
    /\ projPending' = TRUE
    /\ UNCHANGED << inputVars, outputVars, cp, sessionVars, refVars, aiTexts, aiVars >>

-----------------------------------------------------------------------------
(* calculateProjection *)

Amount(cents, micros) == [cents |-> cents, micros |-> micros]

\* an off-peak percentage that is kept at the complement of the default 70
OffPeakPercentageStored(peak) == Hundred - 70

\* 100 - peakPercentage
OffPeakPercentage(peak) == Hundred - peak

\* totalUsage * (percentage / 100), in hundredths of a kWh
UsageShare(totalUsage, percentage) == totalUsage * percentage

\* a band selection that starts again at the first band after nine months
ApplicableTariffCycling(quarters, i) == quarters[((i \div 3) % 3) + 1]

\* the tariff band of month index i
ApplicableTariff(quarters, i) ==
    IF i < 3 THEN quarters[1]
    ELSE IF i < 6 THEN quarters[2]
    ELSE IF i < 9 THEN quarters[3]
    ELSE quarters[3]

IsLeapYear(year) ==
    (year % 4 = 0 /\ year % 100 # 0) \/ year % 400 = 0

\* the number of days of month index month0 (0 = January) of a year
DaysOfMonth(year, month0) ==
    IF month0 = 1 THEN (IF IsLeapYear(year) THEN 29 ELSE 28)
    ELSE IF month0 \in {3, 5, 8, 10} THEN 30
    ELSE 31

\* new Date(2025, i + 1, 0).getDate(): day 0 of month index i + 1 is the last day
\* of month index i, and a month index past 11 runs into the following years.
DaysInMonth(i) == DaysOfMonth(ReferenceYear + (i \div 12), i % 12)

\* a rate selection that takes the band of the month in both modes
SelectedRatesOfBand(fixedMode, fixed, applicable) == applicable

\* if (isFixedCharge) the fixed rates, else the applicable tariff band
SelectedRates(fixedMode, fixed, applicable) ==
    IF fixedMode THEN fixed ELSE applicable

\* a month cost whose standing charge is not multiplied by the days of the month
MonthCostFlatStanding(peakUsage, offPeakUsage, daysInMonth, rate) ==
    peakUsage * rate.peakUnitRate + offPeakUsage * rate.offPeakUnitRate
      + rate.standingCharge * Hundred

\* (peakUsage * rate.peakUnitRate) / 100 + (offPeakUsage * rate.offPeakUnitRate) / 100
\*   + (daysInMonth * rate.standingCharge) / 100, in millionths of a pound
MonthCost(peakUsage, offPeakUsage, daysInMonth, rate) ==
    peakUsage * rate.peakUnitRate + offPeakUsage * rate.offPeakUnitRate
      + daysInMonth * rate.standingCharge * Hundred

\* toFixed(2) that cuts the digits off instead of rounding
ToFixed2Truncating(micros) ==
    IF micros >= 0 THEN micros \div MicrosPerCent
    ELSE 0 - ((0 - micros) \div MicrosPerCent)

\* parseFloat(x.toFixed(2)) of millionths of a pound, in cents: the nearest cent,
\* a tie going away from zero.
ToFixed2(micros) ==
    IF micros >= 0 THEN (2 * micros + MicrosPerCent) \div (2 * MicrosPerCent)
    ELSE 0 - ((2 * (0 - micros) + MicrosPerCent) \div (2 * MicrosPerCent))

\* currentTotalCost += monthCost
AddCost(total, micros) ==
    Amount(total.cents + ((total.micros + micros) \div MicrosPerCent),
           (total.micros + micros) % MicrosPerCent)

\* a loop condition that runs one turn too many
LoopContinuesUpTo(i, n) == i <= n

\* the loop condition i < nMonths
LoopContinues(i, n) == i < n

\* a cycle index that stops at the last entry instead of wrapping
MonthIndexClamped(i, length) == IF i < length THEN i ELSE length - 1

\* i % usageBasis.length
MonthIndex(i, length) == i % length

IdleProjectionFrame ==
    [pc |-> "idle", usageBasis |-> << >>, i |-> 0, projectedMonths |-> << >>,
     projectedCostsCalc |-> << >>, currentTotalCost |-> Amount(0, 0),
     offPeakPercentage |-> 0, totalUsage |-> 0, peakUsage |-> 0, offPeakUsage |-> 0,
     applicableTariff |-> InitialTariffQuarters[3], daysInMonth |-> 0, monthCost |-> 0]

\* locals whose running total starts from the total of the previous run
ProjectionStartOnPriorTotal(usageBasis, peak) ==
    [IdleProjectionFrame EXCEPT !.pc = "loop", !.usageBasis = usageBasis,
                                !.offPeakPercentage = OffPeakPercentage(peak),
                                !.currentTotalCost = totalProjectedCost]

\* the locals of calculateProjection when it is called
ProjectionStart(usageBasis, peak) ==
    [IdleProjectionFrame EXCEPT !.pc = "loop", !.usageBasis = usageBasis,
                                !.offPeakPercentage = OffPeakPercentage(peak)]

\* usageBasis is computed; an empty usageBasis reports the error and returns
CalcProjectionBegin ==
    /\ projPending
    /\ cp.pc # "loop"
    /\ LET usageBasis == UsageBasisOf(monthlyUsageProjectionBasis)
       IN  IF Len(usageBasis) = 0
           THEN /\ error' = EmptyBasisError
                /\ projectedUsage' = << >>
                /\ projectedCosts' = << >>
                /\ totalProjectedCost' = Amount(0, 0)
                /\ cp' = [IdleProjectionFrame EXCEPT !.pc = "invalid"]
                /\ projPending' = FALSE
           ELSE /\ cp' = ProjectionStart(usageBasis, peakPercentage)
                /\ UNCHANGED << outputVars, projPending >>
    /\ UNCHANGED << inputVars, tariffQuarters, bandsPending, tb, sessionVars, refVars,
                    aiTexts, aiVars >>

\* the locals after one turn of for (let i = 0; i < nMonths; i++)
ProjectionTurn(frame, peak, quarters, fixedMode, fixed) ==
    LET monthIndex == MonthIndex(frame.i, Len(frame.usageBasis))
        totalUsage == frame.usageBasis[monthIndex + 1]
        peakUsage == UsageShare(totalUsage, peak)
        offPeakUsage == UsageShare(totalUsage, frame.offPeakPercentage)
        applicableTariff == ApplicableTariff(quarters, frame.i)
        daysInMonth == DaysInMonth(frame.i)
        monthCost == MonthCost(peakUsage, offPeakUsage, daysInMonth,
                               SelectedRates(fixedMode, fixed, applicableTariff))
    IN  [frame EXCEPT !.totalUsage = totalUsage,
                      !.peakUsage = peakUsage,
                      !.offPeakUsage = offPeakUsage,
                      !.applicableTariff = applicableTariff,
                      !.daysInMonth = daysInMonth,
                      !.monthCost = monthCost,
                      !.projectedMonths = Append(@, totalUsage),
                      !.projectedCostsCalc = Append(@, ToFixed2(monthCost)),
                      !.currentTotalCost = AddCost(@, monthCost),
                      !.i = @ + 1]

\* one turn of the loop
CalcProjectionIter ==
    /\ cp.pc = "loop"
    /\ LoopContinues(cp.i, nMonths)
    /\ cp' = ProjectionTurn(cp, peakPercentage, tariffQuarters, isFixedCharge, fixedRates)
    /\ UNCHANGED << inputVars, tariffQuarters, outputVars, bandsPending, projPending, tb,
                    sessionVars, refVars, aiTexts, aiVars >>

\* setProjectedUsage, setProjectedCosts, setTotalProjectedCost, setError(null)
CalcProjectionCommit ==
    /\ cp.pc = "loop"
    /\ ~LoopContinues(cp.i, nMonths)
    /\ projectedUsage' = cp.projectedMonths
    /\ projectedCosts' = cp.projectedCostsCalc
    /\ totalProjectedCost' = cp.currentTotalCost
    /\ error' = NoError
    /\ cp' = [cp EXCEPT !.pc = "done"]
    /\ projPending' = FALSE
    /\ UNCHANGED << inputVars, tariffQuarters, bandsPending, tb, sessionVars, refVars,
                    aiTexts, aiVars >>

RECURSIVE ProjectionLoop(_, _, _, _, _, _)
\* the locals after the last turn of the loop
ProjectionLoop(frame, n, peak, quarters, fixedMode, fixed) ==
    IF LoopContinues(frame.i, n)
    THEN ProjectionLoop(ProjectionTurn(frame, peak, quarters, fixedMode, fixed),
                        n, peak, quarters, fixedMode, fixed)
    ELSE frame

-----------------------------------------------------------------------------
(* The state around the engine, at rest *)

\* localStorage with no item
EmptyStorage == [readable |-> TRUE, sessions |-> << >>, apiKey |-> ""]

\* no AI call is in flight
NoRequest == "none"

\* no fetch has completed yet
NoResponse == [kind |-> "none", status |-> 0, statusText |-> << >>]

\* no usage tips have been requested yet
NoPrompt == [projectedUsage |-> << >>, peakPercentage |-> 0, rateInfo |-> << >>]

\* the application past its startup, with no session, no key and no AI call
AppAtRest ==
    /\ loading = FALSE
    /\ sessionName = ""
    /\ savedSessions = << >>
    /\ modalTitle = NoModal
    /\ storage = EmptyStorage
    /\ currentTariffBandRef = NoRef
    /\ tariffQuartersRef = NoRef
    /\ fixedRatesRef = NoRef
    /\ uncaught = NoException
    /\ events = 0
    /\ geminiApiKey = ""
    /\ showApiKeyModal = FALSE
    /\ llmLoading = FALSE
    /\ usageTips = ""
    /\ comparisonSummary = ""
    /\ selectedSession1 = 0
    /\ selectedSession2 = 0
    /\ aiRequest = NoRequest
    /\ aiResponse = NoResponse
    /\ tipsPrompt = NoPrompt

-----------------------------------------------------------------------------
(* The projection engine on its own: calculateProjection applied to inputs that
   the input handlers can set. *)

\* values the peak percentage input can hold
PeakPercentages == {0, 33, 50, 70, 100}

FixedRatesChoices == { InitialFixedRates, Rates(2000, 5000, 1000) }

\* calculateTariffBands of the initial current band in July
JulyTariffQuarters ==
    << Band("Current Month", 2700, 5500, 1500),
       Band("Next Quarter", 3025, 6105, 1705),
       Band("Following Quarter", 3080, 6160, 1760) >>

\* future bands after edits of the band editor
EditedTariffQuarters ==
    << Band("Current Month", 2700, 5500, 1500),
       Band("Next Quarter", 0, 5550, 1550),
       Band("Following Quarter", 2815, -33, 1607) >>

TariffQuartersChoices ==
    { InitialTariffQuarters, JulyTariffQuarters, EditedTariffQuarters }

\* a current band other than the initial one
WinterCurrentTariffBand == Rates(2000, 4000, 1000)

\* the month, the current band and the bands a projection can run with: the
\* initial band in July with the initial, derived or edited bands, and another
\* band in January with the bands derived from it
BandContexts ==
    { [month |-> 7, band |-> InitialCurrentTariffBand, quarters |-> q] :
          q \in TariffQuartersChoices }
    \cup { [month |-> 1, band |-> WinterCurrentTariffBand,
            quarters |-> DerivedBands(WinterCurrentTariffBand, 1)] }

\* the horizons of the projection: every horizon up to MaxMonths and a long one
MonthCounts == (1..MaxMonths) \cup {LongHorizon}

\* the outputs and the error left by what ran before: nothing yet, a storage
\* failure of the load effect, or an earlier projection
PriorOutputs ==
    { [usage |-> << >>, costs |-> << >>, total |-> Amount(0, 0), error |-> NoError],
      [usage |-> << >>, costs |-> << >>, total |-> Amount(0, 0), error |-> LoadError],
      [usage |-> << 100, 100 >>, costs |-> << 3050, 2900 >>, total |-> Amount(5950, 0),
       error |-> NoError] }

InitProjection ==
    /\ monthlyUsageProjectionBasis \in UsageTexts
    /\ peakPercentage \in PeakPercentages
    /\ nMonths \in MonthCounts
    /\ isFixedCharge \in BOOLEAN
    /\ fixedRates \in FixedRatesChoices
    /\ \E context \in BandContexts :
          /\ currentMonth = context.month
          /\ currentTariffBand = context.band
          /\ tariffQuarters = context.quarters
    /\ \E prior \in PriorOutputs :
          /\ projectedUsage = prior.usage
          /\ projectedCosts = prior.costs
          /\ totalProjectedCost = prior.total
          /\ error = prior.error
    /\ bandsPending = FALSE
    /\ projPending = TRUE
    /\ cp = IdleProjectionFrame
    /\ tb = IdleBandsFrame
    /\ AppAtRest

NextProjection ==
    \/ CalcProjectionBegin
    \/ CalcProjectionIter
    \/ CalcProjectionCommit

SpecProjection == InitProjection /\ [][NextProjection]_vars

-----------------------------------------------------------------------------
(* The band deriver on its own: calculateTariffBands applied to current bands
   that the current band inputs can set. *)

\* rates (hundredths of a penny) the rate inputs can hold
BandRateChoices == {-500, 0, 15, 1500, 2700, 5500}

InitBands ==
    /\ monthlyUsageProjectionBasis = DefaultUsageText
    /\ peakPercentage = 70
    /\ nMonths = 12
    /\ currentMonth \in 1..12
    /\ isFixedCharge = FALSE
    /\ fixedRates = InitialFixedRates
    /\ currentTariffBand \in { Rates(p, s, o) : p \in BandRateChoices,
                                                 s \in BandRateChoices,
                                                 o \in BandRateChoices }
    /\ tariffQuarters = InitialTariffQuarters
    /\ projectedUsage = << >>
    /\ projectedCosts = << >>
    /\ totalProjectedCost = Amount(0, 0)
    /\ error = NoError
    /\ bandsPending = TRUE
    /\ projPending = FALSE
    /\ cp = IdleProjectionFrame
    /\ tb = IdleBandsFrame
    /\ AppAtRest

NextBands ==
    \/ CalcBandsBegin
    \/ CalcBandsIter
    \/ CalcBandsCommit

SpecBands == InitBands /\ [][NextBands]_vars

-----------------------------------------------------------------------------
(* The application: the form, the sessions and the AI calls around the engine *)

\* user events of one run of the application
MaxEvents == 3

\* a stored geminiApiKey
StoredKey == "key"

\* A session as an earlier version of the application stored it: without
\* peakPercentage, currentMonth, isFixedCharge, fixedRates, currentTariffBand and
\* results, and with bands that have no standingCharge.
LegacySession ==
    [id |-> 1, name |-> "legacy", monthlyUsageProjectionBasis |-> TextSingle,
     nMonths |-> 2,
     tariffQuarters |->
        << [name |-> "Current Month", peakUnitRate |-> 2600, offPeakUnitRate |-> 1400],
           [name |-> "Next Quarter", peakUnitRate |-> 2650, offPeakUnitRate |-> 1450],
           [name |-> "Following Quarter", peakUnitRate |-> 2700,
            offPeakUnitRate |-> 1500] >>]

\* a stored session that has no tariffQuarters
TruncatedSession ==
    [id |-> 2, name |-> "truncated", monthlyUsageProjectionBasis |-> TextSingle,
     peakPercentage |-> 50, nMonths |-> 2]

\* A session this version of the application saved in an earlier run: 100 kWh over
\* two months from July, all of it off peak, with an edited next quarter.
EarlierSession ==
    [id |-> 3, name |-> "earlier", monthlyUsageProjectionBasis |-> TextSingle,
     peakPercentage |-> 0, nMonths |-> 2, currentMonth |-> 7, isFixedCharge |-> FALSE,
     fixedRates |-> InitialFixedRates,
     currentTariffBand |-> InitialCurrentTariffBand,
     tariffQuarters |->
        << Band("Current Month", 2700, 5500, 1500),
           Band("Next Quarter", 3000, 6105, 1705),
           Band("Following Quarter", 3080, 6160, 1760) >>,
     projectedUsage |-> << 100, 100 >>,
     projectedCosts |-> << 3205, 3040 >>,
     totalProjectedCost |-> 6245]

\* the items left by earlier runs: three sessions and a key
EarlierRunsStorage ==
    [readable |-> TRUE,
     sessions |-> << LegacySession, TruncatedSession, EarlierSession >>,
     apiKey |-> StoredKey]

\* what localStorage can hold when the application starts: nothing, the items of
\* earlier runs, or an energySessions item that JSON.parse rejects
StorageChoices ==
    { EmptyStorage,
      EarlierRunsStorage,
      [readable |-> FALSE, sessions |-> << >>, apiKey |-> ""] }

\* new Date().getMonth() + 1 on the day the application runs
TodayMonths == {7}

Has(object, field) == field \in DOMAIN object

\* The fields of a session of the model that stand for the identities of its
\* currentTariffBand, of the bands of its tariffQuarters and of its fixedRates. An
\* identity is the index of the first saved session that holds the object.
RefFields == {"bandRef", "quartersRef", "fixedRef"}

\* JSON.parse of the stored list: every session holds objects of its own
Parsed(stored) ==
    [k \in 1..Len(stored) |->
        [f \in DOMAIN stored[k] \cup RefFields |->
            IF f \in RefFields THEN k ELSE stored[k][f]]]

\* a serialisation that leaves out the last session of the list
StringifiedWithoutLast(sessions) ==
    [k \in 1..(Len(sessions) - 1) |->
        [f \in DOMAIN sessions[k] \ RefFields |-> sessions[k][f]]]

\* JSON.stringify of the session list: the values, without the object identities
Stringified(sessions) ==
    [k \in 1..Len(sessions) |->
        [f \in DOMAIN sessions[k] \ RefFields |-> sessions[k][f]]]

Init ==
    /\ monthlyUsageProjectionBasis = DefaultUsageText
    /\ peakPercentage = 70
    /\ nMonths = 12
    /\ currentMonth \in TodayMonths
    /\ isFixedCharge = FALSE
    /\ fixedRates = InitialFixedRates
    /\ currentTariffBand = InitialCurrentTariffBand
    /\ tariffQuarters = InitialTariffQuarters
    /\ projectedUsage = << >>
    /\ projectedCosts = << >>
    /\ totalProjectedCost = Amount(0, 0)
    /\ error = NoError
    /\ bandsPending = TRUE
    /\ projPending = TRUE
    /\ cp = IdleProjectionFrame
    /\ tb = IdleBandsFrame
    /\ loading = TRUE
    /\ sessionName = ""
    /\ savedSessions = << >>
    /\ modalTitle = NoModal
    /\ storage \in StorageChoices
    /\ currentTariffBandRef = NoRef
    /\ tariffQuartersRef = NoRef
    /\ fixedRatesRef = NoRef
    /\ uncaught = NoException
    /\ events = 0
    /\ geminiApiKey = ""
    /\ showApiKeyModal = FALSE
    /\ llmLoading = FALSE
    /\ usageTips = ""
    /\ comparisonSummary = ""
    /\ selectedSession1 = 0
    /\ selectedSession2 = 0
    /\ aiRequest = NoRequest
    /\ aiResponse = NoResponse
    /\ tipsPrompt = NoPrompt

\* The startup load effect. It is declared after the tariff band effect and before
\* the recalculation effect, and runs once.
LoadStoredData ==
    /\ loading
    /\ ~bandsPending
    /\ IF storage.readable
       THEN /\ savedSessions' = Parsed(storage.sessions)
            /\ geminiApiKey' = storage.apiKey
            /\ error' = error
       ELSE /\ error' = LoadError
            /\ UNCHANGED << savedSessions, geminiApiKey >>
    /\ loading' = FALSE
    /\ UNCHANGED << inputVars, tariffQuarters, projectedUsage, projectedCosts,
                    totalProjectedCost, bandsPending, projPending, cp, tb,
                    sessionName, modalTitle, storage, uncaught, events, refVars, aiTexts,
                    showApiKeyModal, llmLoading, selectedSession1, selectedSession2,
                    aiRequest, aiResponse,
                    tipsPrompt >>

\* The comparison section is rendered for two selected sessions and calls
\* totalProjectedCost.toFixed(2) on both: a session without that field makes the
\* render throw, and the application is unmounted.
RenderThrows ==
    /\ selectedSession1 # 0 /\ selectedSession2 # 0
    /\ \E k \in {selectedSession1, selectedSession2} :
          ~Has(savedSessions[k], "totalProjectedCost")

\* The tariff band effect: calculateTariffBands runs to its end, and
\* setTariffQuarters(bands), with a new array of new band objects, reschedules the
\* recalculation effect.
TariffBandEffect ==
    /\ bandsPending
    /\ tariffQuarters' = DerivedBands(currentTariffBand, currentMonth)
    /\ tariffQuartersRef' = NoRef
    /\ bandsPending' = FALSE
    /\ projPending' = TRUE
    /\ UNCHANGED << inputVars, outputVars, cp, tb, sessionVars, currentTariffBandRef,
                    fixedRatesRef, aiTexts, aiVars >>

\* The recalculation effect clears usageTips and comparisonSummary and runs
\* calculateProjection to its end. The effects run in the order of their
\* declaration, so the tariff band effect and the startup load effect come first;
\* a run that is followed by another one in the same flush is not shown.
RecalculationEffect ==
    /\ projPending
    /\ ~bandsPending
    /\ ~loading
    /\ usageTips' = ""
    /\ comparisonSummary' = ""
    /\ \E usageBasis \in { UsageBasisOf(monthlyUsageProjectionBasis) } :
          IF Len(usageBasis) = 0
          THEN /\ error' = EmptyBasisError
               /\ projectedUsage' = << >>
               /\ projectedCosts' = << >>
               /\ totalProjectedCost' = Amount(0, 0)
          ELSE \E frame \in { ProjectionLoop(ProjectionStart(usageBasis, peakPercentage),
                                              nMonths, peakPercentage, tariffQuarters,
                                              isFixedCharge, fixedRates) } :
                  /\ projectedUsage' = frame.projectedMonths
                  /\ projectedCosts' = frame.projectedCostsCalc
                  /\ totalProjectedCost' = frame.currentTotalCost
                  /\ error' = NoError
    /\ projPending' = FALSE
    /\ UNCHANGED << inputVars, tariffQuarters, bandsPending, cp, tb, sessionVars,
                    refVars, aiVars >>

\* every effect has run
Settled == ~loading /\ ~bandsPending /\ ~projPending

\* the render gets past if (loading) and if (error) and shows the form
FormShown == Settled /\ error = NoError /\ ~RenderThrows

\* the user can act on the form, and has events left
UserEvent == FormShown /\ events < MaxEvents

(* The handlers of the form.  An event that leaves the value of its field as it
   is changes no state and is left out. *)

\* texts typed into the usage field
EnteredTexts == { TextSingle, TextNoNumber, TextNegative }

\* what parseInt returns for the text of the peak percentage field
PeakInputs == { NaN, Num(-5), Num(150) }

\* what parseInt returns for the text of the months field
MonthCountInputs == { NaN, Num(0), Num(3) }

\* the options of the current month select that are chosen
MonthInputs == {1}

\* what parseFloat returns for the text of a rate field: NaN for an empty field
RateInputs == { NaN, Num(-500) }

RateFields == {"peakUnitRate", "standingCharge", "offPeakUnitRate"}

\* x || fallback for a number x: NaN and 0 are falsy
OrElse(n, fallback) == IF isNaN(n) \/ n.value = 0 THEN fallback ELSE n.value

Max(a, b) == IF a >= b THEN a ELSE b

\* a minimum that lets its second argument through
MinOfSecond(a, b) == b

Min(a, b) == IF a <= b THEN a ELSE b

\* onChange of the usage textarea
SetMonthlyUsageProjectionBasis ==
    /\ UserEvent
    /\ \E text \in EnteredTexts :
          /\ text # monthlyUsageProjectionBasis
          /\ monthlyUsageProjectionBasis' = text
    /\ projPending' = TRUE
    /\ events' = events + 1
    /\ UNCHANGED << peakPercentage, nMonths, currentMonth, isFixedCharge, fixedRates,
                    currentTariffBand, tariffQuarters, outputVars, bandsPending, cp, tb,
                    loading, sessionName, savedSessions, modalTitle, storage, uncaught,
                    refVars, aiTexts, aiVars >>

\* onChange of the peak percentage field:
\* Math.max(0, Math.min(100, parseInt(e.target.value) || 0))
SetPeakPercentage ==
    /\ UserEvent
    /\ \E input \in PeakInputs :
          LET value == Max(0, Min(100, OrElse(input, 0)))
          IN  /\ value # peakPercentage
              /\ peakPercentage' = value
    /\ projPending' = TRUE
    /\ events' = events + 1
    /\ UNCHANGED << monthlyUsageProjectionBasis, nMonths, currentMonth, isFixedCharge,
                    fixedRates, currentTariffBand, tariffQuarters, outputVars,
                    bandsPending, cp, tb, loading, sessionName, savedSessions,
                    modalTitle, storage, uncaught, refVars, aiTexts, aiVars >>

\* onChange of the months field: Math.max(1, parseInt(e.target.value) || 1)
SetNMonths ==
    /\ UserEvent
    /\ \E input \in MonthCountInputs :
          LET value == Max(1, OrElse(input, 1))
          IN  /\ value # nMonths
              /\ nMonths' = value
    /\ projPending' = TRUE
    /\ events' = events + 1
    /\ UNCHANGED << monthlyUsageProjectionBasis, peakPercentage, currentMonth,
                    isFixedCharge, fixedRates, currentTariffBand, tariffQuarters,
                    outputVars, bandsPending, cp, tb, loading, sessionName,
                    savedSessions, modalTitle, storage, uncaught, refVars, aiTexts,
                    aiVars >>

\* onChange of the current month select; calculateTariffBands depends on the month
SetCurrentMonth ==
    /\ UserEvent
    /\ \E month \in MonthInputs :
          /\ month # currentMonth
          /\ currentMonth' = month
    /\ bandsPending' = TRUE
    /\ events' = events + 1
    /\ UNCHANGED << monthlyUsageProjectionBasis, peakPercentage, nMonths, isFixedCharge,
                    fixedRates, currentTariffBand, tariffQuarters, outputVars,
                    projPending, cp, tb, loading, sessionName, savedSessions,
                    modalTitle, storage, uncaught, refVars, aiTexts, aiVars >>

\* onChange of the fixed rates checkbox
SetIsFixedCharge ==
    /\ UserEvent
    /\ isFixedCharge' = ~isFixedCharge
    /\ projPending' = TRUE
    /\ events' = events + 1
    /\ UNCHANGED << monthlyUsageProjectionBasis, peakPercentage, nMonths, currentMonth,
                    fixedRates, currentTariffBand, tariffQuarters, outputVars,
                    bandsPending, cp, tb, loading, sessionName, savedSessions,
                    modalTitle, storage, uncaught, refVars, aiTexts, aiVars >>

\* onChange of a fixed rate field, shown in fixed mode:
\* setFixedRates({ ...fixedRates, field: parseFloat(e.target.value) || 0 })
SetFixedRate ==
    /\ UserEvent
    /\ isFixedCharge
    /\ \E field \in RateFields, input \in RateInputs :
          /\ OrElse(input, 0) # fixedRates[field]
          /\ fixedRates' = [fixedRates EXCEPT ![field] = OrElse(input, 0)]
    /\ fixedRatesRef' = NoRef
    /\ projPending' = TRUE
    /\ events' = events + 1
    /\ UNCHANGED << monthlyUsageProjectionBasis, peakPercentage, nMonths, currentMonth,
                    isFixedCharge, currentTariffBand, tariffQuarters, outputVars,
                    bandsPending, cp, tb, loading, sessionName, savedSessions,
                    modalTitle, storage, uncaught, currentTariffBandRef,
                    tariffQuartersRef, aiTexts, aiVars >>

\* onChange of a current band field, shown in variable mode:
\* setCurrentTariffBand({ ...currentTariffBand, field: parseFloat(e.target.value) || 0 })
\* The new object reschedules the tariff band effect.
SetCurrentTariffRate ==
    /\ UserEvent
    /\ ~isFixedCharge
    /\ \E field \in RateFields, input \in RateInputs :
          /\ OrElse(input, 0) # currentTariffBand[field]
          /\ currentTariffBand' = [currentTariffBand EXCEPT ![field] = OrElse(input, 0)]
    /\ currentTariffBandRef' = NoRef
    /\ bandsPending' = TRUE
    /\ events' = events + 1
    /\ UNCHANGED << monthlyUsageProjectionBasis, peakPercentage, nMonths, currentMonth,
                    isFixedCharge, fixedRates, tariffQuarters, outputVars, projPending,
                    cp, tb, loading, sessionName, savedSessions, modalTitle, storage,
                    uncaught, tariffQuartersRef, fixedRatesRef, aiTexts, aiVars >>

\* the bands of a list after the assignment bands[index].field = value
WithRate(bands, index, field, value) ==
    [bands EXCEPT ![index] = [@ EXCEPT ![field] = value]]

\* onChange of a field of a future band (index 0 or 1 of tariffQuarters.slice(1)),
\* shown in variable mode:
\*   const newTariffs = [...tariffQuarters];
\*   newTariffs[index + 1].field = parseFloat(e.target.value) || 0;
\*   setTariffQuarters(newTariffs);
\* The copy is shallow: the assignment writes to the band object that the state
\* and every saved session holding that object share.
SetFutureBandRate ==
    /\ UserEvent
    /\ ~isFixedCharge
    /\ \E index \in {0, 1}, field \in RateFields, input \in RateInputs :
          /\ OrElse(input, 0) # tariffQuarters[index + 2][field]
          /\ tariffQuarters' = WithRate(tariffQuarters, index + 2, field, OrElse(input, 0))
          /\ savedSessions' =
                [k \in 1..Len(savedSessions) |->
                    IF /\ tariffQuartersRef # NoRef
                       /\ savedSessions[k].quartersRef = tariffQuartersRef
                       /\ Has(savedSessions[k], "tariffQuarters")
                    THEN [savedSessions[k] EXCEPT !.tariffQuarters =
                             WithRate(@, index + 2, field, OrElse(input, 0))]
                    ELSE savedSessions[k]]
    /\ projPending' = TRUE
    /\ events' = events + 1
    /\ UNCHANGED << inputVars, outputVars, bandsPending, cp, tb, loading, sessionName,
                    modalTitle, storage, uncaught, refVars, aiTexts, aiVars >>

(* The session handlers *)

\* names typed into the session name field
SessionNames == {"plan", " "}

\* names that sessionName.trim() leaves empty
BlankNames == {"", " "}

\* a test of the name that does not trim it
IsBlankWithoutTrim(name) == name = ""

\* !sessionName.trim()
IsBlank(name) == name \in BlankNames

\* parseFloat(totalProjectedCost.toFixed(2)), in cents
ToFixed2OfAmount(total) ==
    IF total.micros > MicrosPerCent \div 2
          \/ (total.micros = MicrosPerCent \div 2 /\ total.cents >= 0)
    THEN total.cents + 1
    ELSE total.cents

\* the identity under which a new session, the n-th, holds an object of the state
RefAfterSave(ref, n) == IF ref = NoRef THEN n ELSE ref

\* the newSession object of handleSaveSession, as the n-th session: it holds the
\* objects of the state themselves, not copies. createdAt is left out.
NewSession(n) ==
    [id |-> n,
     name |-> sessionName,
     monthlyUsageProjectionBasis |-> monthlyUsageProjectionBasis,
     peakPercentage |-> peakPercentage,
     nMonths |-> nMonths,
     currentMonth |-> currentMonth,
     isFixedCharge |-> isFixedCharge,
     fixedRates |-> fixedRates,
     currentTariffBand |-> currentTariffBand,
     tariffQuarters |-> tariffQuarters,
     projectedUsage |-> projectedUsage,
     projectedCosts |-> projectedCosts,
     totalProjectedCost |-> ToFixed2OfAmount(totalProjectedCost),
     bandRef |-> RefAfterSave(currentTariffBandRef, n),
     quartersRef |-> RefAfterSave(tariffQuartersRef, n),
     fixedRef |-> RefAfterSave(fixedRatesRef, n)]

\* onChange of the session name field
SetSessionName ==
    /\ UserEvent
    /\ \E name \in SessionNames :
          /\ name # sessionName
          /\ sessionName' = name
    /\ events' = events + 1
    /\ UNCHANGED << inputVars, tariffQuarters, outputVars, bandsPending, projPending,
                    cp, tb, loading, savedSessions, modalTitle, storage, uncaught,
                    refVars, aiTexts, aiVars >>

\* handleSaveSession. localStorage.setItem stores the list or throws; loading is
\* set and reset within the handler.
SaveSession ==
    /\ UserEvent
    /\ events' = events + 1
    /\ IF IsBlank(sessionName)
       THEN /\ modalTitle' = MissingNameModal
            /\ UNCHANGED << sessionName, savedSessions, storage, error, refVars >>
       ELSE LET newSession == NewSession(Len(savedSessions) + 1)
                updatedSessions == Append(savedSessions, newSession)
            IN  \E stored \in BOOLEAN :
                   IF stored
                   THEN /\ storage' = [storage EXCEPT
                                          !.readable = TRUE,
                                          !.sessions = Stringified(updatedSessions)]
                        /\ savedSessions' = updatedSessions
                        /\ modalTitle' = SessionSavedModal
                        /\ sessionName' = ""
                        /\ error' = NoError
                        /\ currentTariffBandRef' = newSession.bandRef
                        /\ tariffQuartersRef' = newSession.quartersRef
                        /\ fixedRatesRef' = newSession.fixedRef
                   ELSE /\ error' = SaveError
                        /\ UNCHANGED << sessionName, savedSessions, storage,
                                        modalTitle, refVars >>
    /\ UNCHANGED << inputVars, tariffQuarters, projectedUsage, projectedCosts,
                    totalProjectedCost, bandsPending, projPending, cp, tb, loading,
                    uncaught, aiTexts, aiVars >>

\* onConfirm of the modal: setShowModal(false)
ConfirmModal ==
    /\ UserEvent
    /\ modalTitle # NoModal
    /\ modalTitle' = NoModal
    /\ events' = events + 1
    /\ UNCHANGED << inputVars, tariffQuarters, outputVars, bandsPending, projPending,
                    cp, tb, loading, sessionName, savedSessions, storage, uncaught,
                    refVars, aiTexts, aiVars >>

\* a loaded band whose standingCharge is always replaced by 0
LoadedBandWithoutStandingCharge(q) ==
    [f \in DOMAIN q \cup {"standingCharge"} |->
        IF f = "standingCharge" THEN 0 ELSE q[f]]

\* a loaded band: { ...q, standingCharge: q.standingCharge !== undefined ? ... : 0 }
LoadedBand(q) ==
    [f \in DOMAIN q \cup {"standingCharge"} |->
        IF f = "standingCharge" /\ ~Has(q, "standingCharge") THEN 0 ELSE q[f]]

\* session.tariffQuarters.map(...)
LoadedTariffQuarters(quarters) ==
    [k \in 1..Len(quarters) |-> LoadedBand(quarters[k])]

\* the state keeps an object: the session brings the object the state holds
SameObject(session, field, refField, ref) ==
    Has(session, field) /\ ref # NoRef /\ session[refField] = ref

\* onChange of the load select, with handleLoadSession. A session without
\* tariffQuarters makes session.tariffQuarters.map throw a TypeError that nothing
\* catches: the calls before it take effect, the calls after it are not reached.
LoadSession ==
    /\ UserEvent
    /\ \E k \in 1..Len(savedSessions), today \in TodayMonths :
          LET session == savedSessions[k]
              month == IF Has(session, "currentMonth") /\ session.currentMonth # 0
                       THEN session.currentMonth ELSE today
              peak == IF Has(session, "peakPercentage") /\ session.peakPercentage # 0
                      THEN session.peakPercentage ELSE 70
              fixedMode == IF Has(session, "isFixedCharge")
                           THEN session.isFixedCharge ELSE FALSE
              sameBand == SameObject(session, "currentTariffBand", "bandRef",
                                     currentTariffBandRef)
              sameFixed == SameObject(session, "fixedRates", "fixedRef", fixedRatesRef)
          IN  /\ sessionName' = session.name
              /\ monthlyUsageProjectionBasis' = session.monthlyUsageProjectionBasis
              /\ peakPercentage' = peak
              /\ currentMonth' = month
              /\ isFixedCharge' = fixedMode
              /\ fixedRates' = IF Has(session, "fixedRates")
                                THEN session.fixedRates ELSE InitialFixedRates
              /\ fixedRatesRef' = IF Has(session, "fixedRates")
                                   THEN session.fixedRef ELSE NoRef
              /\ currentTariffBand' = IF Has(session, "currentTariffBand")
                                       THEN session.currentTariffBand
                                       ELSE InitialCurrentTariffBand
              /\ currentTariffBandRef' = IF Has(session, "currentTariffBand")
                                          THEN session.bandRef ELSE NoRef
              /\ bandsPending' = (~sameBand \/ month # currentMonth)
              /\ IF Has(session, "tariffQuarters")
                 THEN /\ tariffQuarters' = LoadedTariffQuarters(session.tariffQuarters)
                      /\ tariffQuartersRef' = NoRef
                      /\ nMonths' = session.nMonths
                      /\ projectedUsage' = IF Has(session, "projectedUsage")
                                            THEN session.projectedUsage ELSE << >>
                      /\ projectedCosts' = IF Has(session, "projectedCosts")
                                            THEN session.projectedCosts ELSE << >>
                      /\ totalProjectedCost' =
                            IF Has(session, "totalProjectedCost")
                            THEN Amount(session.totalProjectedCost, 0)
                            ELSE Amount(0, 0)
                      /\ selectedSession1' = 0
                      /\ selectedSession2' = 0
                      /\ usageTips' = ""
                      /\ comparisonSummary' = ""
                      /\ projPending' = TRUE
                      /\ uncaught' = NoException
                 ELSE /\ uncaught' = "TypeError"
                      /\ projPending' =
                            \/ session.monthlyUsageProjectionBasis
                                  # monthlyUsageProjectionBasis
                            \/ peak # peakPercentage
                            \/ fixedMode # isFixedCharge
                            \/ ~sameFixed
                      /\ UNCHANGED << tariffQuarters, tariffQuartersRef, nMonths,
                                      projectedUsage, projectedCosts, totalProjectedCost,
                                      selectedSession1, selectedSession2, aiTexts >>
    /\ events' = events + 1
    /\ UNCHANGED << error, cp, tb, loading, savedSessions, modalTitle, storage,
                    geminiApiKey, showApiKeyModal, llmLoading, aiRequest, aiResponse,
                    tipsPrompt >>

(* The comparison selects and the AI calls *)

InvalidKeyError == "Invalid API key. Please check your Gemini API key and try again."
TipsInvalidError ==
    "AI did not return valid usage tips. Please check your API key and try again."
TipsFailedError == "Failed to get usage tips from AI. Please try again later."
SummaryInvalidError ==
    "AI did not return a valid comparison summary. Please check your API key and try again."
SummaryFailedError == "Failed to get comparison summary from AI. Please try again later."
KeySaveError == "Failed to save API key to local storage."
KeyRemoveError == "Failed to remove API key."
KeySavedModal == "API Key Saved!"
KeyRemovedModal == "API Key Removed"

\* the texts a successful call returns
TipsText == "tips"
SummaryText == "summary"

\* the two AI calls
TipsRequest == "getUsageTips"
SummaryRequest == "getComparisonSummary"

\* "API request failed: "
RequestFailedPrefix ==
    << "A", "P", "I", " ", "r", "e", "q", "u", "e", "s", "t", " ", "f", "a", "i", "l", "e", "d", ":", " " >>

\* the message of the TypeError of a rejected fetch
FetchRejectedMessage ==
    << "F", "a", "i", "l", "e", "d", " ", "t", "o", " ", "f", "e", "t", "c", "h" >>

RECURSIVE DecimalDigits(_)
\* the decimal digits of a natural number, as String(n) writes them
DecimalDigits(n) ==
    IF n < 10 THEN << Digits[n + 1] >>
    ELSE Append(DecimalDigits(n \div 10), Digits[(n % 10) + 1])

\* the HTTP status codes and status texts of the responses
StatusCodes == {200, 400, 401, 403, 404, 429, 500}

StatusTexts == { << >>, << "E", "r", "r", "o", "r" >> }

\* response.ok
IsOk(status) == 200 <= status /\ status <= 299

\* what a fetch can end in: a rejection, a response that is not ok, or an ok
\* response whose JSON has candidates[0].content.parts or has not
Responses ==
    { [kind |-> "rejected", status |-> 0, statusText |-> << >>] }
    \cup { [kind |-> "status", status |-> c, statusText |-> t] :
              c \in { x \in StatusCodes : ~IsOk(x) }, t \in StatusTexts }
    \cup { [kind |-> k, status |-> c, statusText |-> << >>] :
              k \in {"valid", "malformed"}, c \in { x \in StatusCodes : IsOk(x) } }

\* apiError.message
ErrorMessage(response) ==
    IF response.kind = "rejected" THEN FetchRejectedMessage
    ELSE RequestFailedPrefix \o DecimalDigits(response.status) \o << " " >>
            \o response.statusText

\* String.prototype.includes
Includes(text, pattern) ==
    \E k \in 1..(Len(text) - Len(pattern) + 1) :
        SubSeq(text, k, k + Len(pattern) - 1) = pattern

\* a test of the message that looks for 401 only
MentionsAuthFailure401Only(message) == Includes(message, << "4", "0", "1" >>)

\* apiError.message.includes('401') || apiError.message.includes('403')
MentionsAuthFailure(message) ==
    Includes(message, << "4", "0", "1" >>) \/ Includes(message, << "4", "0", "3" >>)

\* onChange of the first comparison select; savedSessions.find gives undefined
\* for the empty option
SelectSession1 ==
    /\ UserEvent
    /\ \E k \in 0..Len(savedSessions) :
          /\ k # selectedSession1
          /\ selectedSession1' = k
    /\ comparisonSummary' = ""
    /\ events' = events + 1
    /\ UNCHANGED << inputVars, tariffQuarters, outputVars, bandsPending, projPending,
                    cp, tb, loading, sessionName, savedSessions, modalTitle, storage,
                    uncaught, refVars, usageTips, geminiApiKey, showApiKeyModal,
                    llmLoading, selectedSession2, aiRequest, aiResponse,
                    tipsPrompt >>

\* onChange of the second comparison select
SelectSession2 ==
    /\ UserEvent
    /\ \E k \in 0..Len(savedSessions) :
          /\ k # selectedSession2
          /\ selectedSession2' = k
    /\ comparisonSummary' = ""
    /\ events' = events + 1
    /\ UNCHANGED << inputVars, tariffQuarters, outputVars, bandsPending, projPending,
                    cp, tb, loading, sessionName, savedSessions, modalTitle, storage,
                    uncaught, refVars, usageTips, geminiApiKey, showApiKeyModal,
                    llmLoading, selectedSession1, aiRequest, aiResponse,
                    tipsPrompt >>

\* onChange of the key field of the API key modal
SetGeminiApiKey ==
    /\ UserEvent
    /\ showApiKeyModal
    /\ geminiApiKey # StoredKey
    /\ geminiApiKey' = StoredKey
    /\ events' = events + 1
    /\ UNCHANGED << inputVars, tariffQuarters, outputVars, bandsPending, projPending,
                    cp, tb, loading, sessionName, savedSessions, modalTitle, storage,
                    uncaught, refVars, aiTexts, showApiKeyModal, llmLoading,
                    selectedSession1, selectedSession2, aiRequest, aiResponse,
                    tipsPrompt >>

\* Cancel of the API key modal
CancelApiKeyModal ==
    /\ UserEvent
    /\ showApiKeyModal
    /\ showApiKeyModal' = FALSE
    /\ geminiApiKey' = ""
    /\ events' = events + 1
    /\ UNCHANGED << inputVars, tariffQuarters, outputVars, bandsPending, projPending,
                    cp, tb, loading, sessionName, savedSessions, modalTitle, storage,
                    uncaught, refVars, aiTexts, llmLoading, selectedSession1,
                    selectedSession2, aiRequest, aiResponse,
                    tipsPrompt >>

\* handleSaveApiKey, behind a button that is disabled for a blank key;
\* localStorage.setItem stores the key or throws
SaveApiKey ==
    /\ UserEvent
    /\ showApiKeyModal
    /\ geminiApiKey # ""
    /\ \E stored \in BOOLEAN :
          IF stored
          THEN /\ storage' = [storage EXCEPT !.apiKey = geminiApiKey]
               /\ showApiKeyModal' = FALSE
               /\ error' = NoError
               /\ modalTitle' = KeySavedModal
          ELSE /\ error' = KeySaveError
               /\ UNCHANGED << storage, showApiKeyModal, modalTitle >>
    /\ events' = events + 1
    /\ UNCHANGED << inputVars, tariffQuarters, projectedUsage, projectedCosts,
                    totalProjectedCost, bandsPending, projPending, cp, tb, loading,
                    sessionName, savedSessions, uncaught, refVars, aiTexts,
                    geminiApiKey, llmLoading, selectedSession1, selectedSession2,
                    aiRequest, aiResponse,
                    tipsPrompt >>

\* handleRemoveApiKey, behind a button that is shown while there is a key;
\* localStorage.removeItem removes the key or throws
RemoveApiKey ==
    /\ UserEvent
    /\ geminiApiKey # ""
    /\ \E removed \in BOOLEAN :
          IF removed
          THEN /\ storage' = [storage EXCEPT !.apiKey = ""]
               /\ geminiApiKey' = ""
               /\ usageTips' = ""
               /\ comparisonSummary' = ""
               /\ modalTitle' = KeyRemovedModal
               /\ error' = error
          ELSE /\ error' = KeyRemoveError
               /\ UNCHANGED << storage, geminiApiKey, aiTexts, modalTitle >>
    /\ events' = events + 1
    /\ UNCHANGED << inputVars, tariffQuarters, projectedUsage, projectedCosts,
                    totalProjectedCost, bandsPending, projPending, cp, tb, loading,
                    sessionName, savedSessions, uncaught, refVars, showApiKeyModal,
                    llmLoading, selectedSession1, selectedSession2, aiRequest,
                    aiResponse,
                    tipsPrompt >>

\* what the prompt of getUsageTips quotes: the projected usage, the peak percentage
\* and the fixed rates or the three tariff quarters
TipsPrompt ==
    [projectedUsage |-> projectedUsage,
     peakPercentage |-> peakPercentage,
     rateInfo |-> IF isFixedCharge THEN << fixedRates >> ELSE tariffQuarters]

\* a tips button that is disabled only for an empty projection
TipsButtonDisabledWithoutUsage(busy, usage) == Len(usage) = 0

\* disabled={llmLoading || projectedUsage.length === 0} of the usage tips button
TipsButtonDisabled(busy, usage) == busy \/ Len(usage) = 0

\* disabled={llmLoading} of the comparison summary button
SummaryButtonDisabled(busy) == busy

\* onClick of the usage tips button, disabled while llmLoading or without a
\* projection: checkApiKeyAndExecute(getUsageTips) up to the await of fetch
RequestUsageTips ==
    /\ UserEvent
    /\ ~TipsButtonDisabled(llmLoading, projectedUsage)
    /\ IF geminiApiKey = ""
       THEN /\ showApiKeyModal' = TRUE
            /\ UNCHANGED << llmLoading, usageTips, aiRequest, tipsPrompt >>
       ELSE /\ llmLoading' = TRUE
            /\ usageTips' = ""
            /\ aiRequest' = TipsRequest
            /\ tipsPrompt' = TipsPrompt
            /\ UNCHANGED showApiKeyModal
    /\ events' = events + 1
    /\ UNCHANGED << inputVars, tariffQuarters, outputVars, bandsPending, projPending,
                    cp, tb, loading, sessionName, savedSessions, modalTitle, storage,
                    uncaught, refVars, comparisonSummary, geminiApiKey,
                    selectedSession1, selectedSession2, aiResponse >>

\* the template of the comparison prompt reads projectedUsage and tariffQuarters
\* of a selected session; a session without them makes it throw inside the try
PromptThrows(k) ==
    \/ ~Has(savedSessions[k], "projectedUsage")
    \/ ~Has(savedSessions[k], "tariffQuarters")

\* onClick of the comparison summary button, shown for two selected sessions and
\* disabled while llmLoading: checkApiKeyAndExecute(getComparisonSummary) up to
\* the await of fetch
RequestComparisonSummary ==
    /\ UserEvent
    /\ selectedSession1 # 0 /\ selectedSession2 # 0
    /\ ~SummaryButtonDisabled(llmLoading)
    /\ IF geminiApiKey = ""
       THEN /\ showApiKeyModal' = TRUE
            /\ UNCHANGED << llmLoading, comparisonSummary, aiRequest, error >>
       ELSE /\ comparisonSummary' = ""
            /\ UNCHANGED showApiKeyModal
            /\ IF PromptThrows(selectedSession1) \/ PromptThrows(selectedSession2)
               THEN /\ error' = SummaryFailedError
                    /\ UNCHANGED << llmLoading, aiRequest >>
               ELSE /\ llmLoading' = TRUE
                    /\ aiRequest' = SummaryRequest
                    /\ error' = error
    /\ events' = events + 1
    /\ UNCHANGED << inputVars, tariffQuarters, projectedUsage, projectedCosts,
                    totalProjectedCost, bandsPending, projPending, cp, tb, loading,
                    sessionName, savedSessions, modalTitle, storage, uncaught, refVars,
                    usageTips, geminiApiKey, selectedSession1, selectedSession2,
                    aiResponse,
                    tipsPrompt >>

\* the error a call reports for a response it cannot use
FailureError(request, response) ==
    IF response.kind = "malformed"
    THEN (IF request = TipsRequest THEN TipsInvalidError ELSE SummaryInvalidError)
    ELSE IF MentionsAuthFailure(ErrorMessage(response))
    THEN InvalidKeyError
    ELSE (IF request = TipsRequest THEN TipsFailedError ELSE SummaryFailedError)

\* a flag that is reset in the try block only, after a response that was used
LlmLoadingAfterTry(response) == response.kind # "valid"

\* finally { setLlmLoading(false); }
LlmLoadingAfter(response) == FALSE

\* The fetch of the call in flight ends and the rest of getUsageTips or
\* getComparisonSummary runs: the text is set for a valid response, the error for
\* any other, and llmLoading is reset.
AiResponds ==
    /\ aiRequest # NoRequest
    /\ Settled
    /\ \E response \in Responses :
          /\ aiResponse' = response
          /\ IF response.kind = "valid"
             THEN /\ error' = NoError
                  /\ usageTips' = IF aiRequest = TipsRequest
                                   THEN TipsText ELSE usageTips
                  /\ comparisonSummary' = IF aiRequest = SummaryRequest
                                           THEN SummaryText ELSE comparisonSummary
             ELSE /\ error' = FailureError(aiRequest, response)
                  /\ UNCHANGED aiTexts
          /\ llmLoading' = LlmLoadingAfter(response)
    /\ aiRequest' = NoRequest
    /\ UNCHANGED << inputVars, tariffQuarters, projectedUsage, projectedCosts,
                    totalProjectedCost, bandsPending, projPending, cp, tb, loading,
                    sessionName, savedSessions, modalTitle, storage, uncaught, events,
                    refVars, geminiApiKey, showApiKeyModal, selectedSession1,
                    selectedSession2, tipsPrompt >>

Next ==
    \/ TariffBandEffect
    \/ LoadStoredData
    \/ RecalculationEffect
    \/ SetMonthlyUsageProjectionBasis
    \/ SetPeakPercentage
    \/ SetNMonths
    \/ SetCurrentMonth
    \/ SetIsFixedCharge
    \/ SetFixedRate
    \/ SetCurrentTariffRate
    \/ SetFutureBandRate
    \/ SetSessionName
    \/ SaveSession
    \/ ConfirmModal
    \/ LoadSession
    \/ SelectSession1
    \/ SelectSession2
    \/ SetGeminiApiKey
    \/ CancelApiKeyModal
    \/ SaveApiKey
    \/ RemoveApiKey
    \/ RequestUsageTips
    \/ RequestComparisonSummary
    \/ AiResponds

Spec == Init /\ [][Next]_vars

\* The forecast side of the application, started on the items of earlier runs: the
\* form, the sessions and the effects.
InitForecast == Init /\ storage = EarlierRunsStorage

NextForecast ==
    \/ TariffBandEffect
    \/ LoadStoredData
    \/ RecalculationEffect
    \/ SetMonthlyUsageProjectionBasis
    \/ SetPeakPercentage
    \/ SetNMonths
    \/ SetCurrentMonth
    \/ SetIsFixedCharge
    \/ SetFixedRate
    \/ SetCurrentTariffRate
    \/ SetFutureBandRate
    \/ SetSessionName
    \/ SaveSession
    \/ LoadSession

SpecForecast == InitForecast /\ [][NextForecast]_vars

\* The AI side of the application, started on a readable localStorage: the
\* comparison selects, the key, the two calls, and the usage field that can be
\* edited while a call is in flight.
InitAssistant == Init /\ storage.readable

NextAssistant ==
    \/ TariffBandEffect
    \/ LoadStoredData
    \/ RecalculationEffect
    \/ SetMonthlyUsageProjectionBasis
    \/ SelectSession1
    \/ SelectSession2
    \/ SetGeminiApiKey
    \/ CancelApiKeyModal
    \/ SaveApiKey
    \/ RemoveApiKey
    \/ ConfirmModal
    \/ RequestUsageTips
    \/ RequestComparisonSummary
    \/ AiResponds

SpecAssistant == InitAssistant /\ [][NextAssistant]_vars

-----------------------------------------------------------------------------
(* Claims about calculateProjection, checked under SpecProjection *)

\* calculateProjection has returned
ProjectionReturned == ~projPending /\ cp.pc \in {"done", "invalid"}

\* a field that is written as a number: an optionally signed run of digits
IsNumeral(field) ==
    LET s == Trim(field)
    IN  \/ AllDigits(s)
        \/ s # << >> /\ Head(s) \in {"-", "+"} /\ AllDigits(Tail(s))

HasNumeral(text) ==
    \E k \in 1..Len(Split(text)) : IsNumeral(Split(text)[k])

\* C1: for every usage text with at least one numeric entry and every nMonths
\* N >= 1, a returned projection has projectedUsage and projectedCosts of length N.
C1_LengthIsNMonths ==
    (ProjectionReturned /\ HasNumeral(monthlyUsageProjectionBasis) /\ nMonths >= 1)
        => /\ Len(projectedUsage) = nMonths
           /\ Len(projectedCosts) = nMonths

\* a projection over the longest horizon has returned, over a text with letters in it
C1_Witness ==
    /\ ProjectionReturned
    /\ monthlyUsageProjectionBasis = TextWithLetters
    /\ nMonths = MaxMonths
    /\ Len(projectedUsage) = MaxMonths
    /\ Len(projectedCosts) = MaxMonths

\* C2: cyclic reuse: for every month index i in 0..nMonths-1, projectedUsage[i] is
\* the entry i mod len of the list of entries kept after filtering.
C2_CyclicReuse ==
    (ProjectionReturned /\ cp.pc = "done")
        => LET kept == UsageBasisOf(monthlyUsageProjectionBasis)
           IN  \A i \in 0..(nMonths - 1) :
                   /\ i + 1 \in DOMAIN projectedUsage
                   /\ projectedUsage[i + 1] = kept[(i % Len(kept)) + 1]

\* the horizon is longer than a pattern of two different entries, which has wrapped
C2_Witness ==
    /\ ProjectionReturned /\ cp.pc = "done"
    /\ monthlyUsageProjectionBasis = TextWithLetters
    /\ nMonths = 5
    /\ projectedUsage = << 100, 7, 100, 7, 100 >>

\* the rates a month is costed with: fixedRates in fixed mode, else the band chosen
RatesUsed == IF isFixedCharge THEN fixedRates ELSE cp.applicableTariff

\* "100", 50 percent peak, 2 months, fixed rates 20 / 10 pence and 50 pence a day
IsExampleInput ==
    /\ monthlyUsageProjectionBasis = TextSingle
    /\ peakPercentage = 50
    /\ nMonths = 2
    /\ isFixedCharge
    /\ fixedRates = Rates(2000, 5000, 1000)

\* C3: the cost of every month is peakUsage*peakUnitRate/100 +
\* offPeakUsage*offPeakUnitRate/100 + daysInMonth*standingCharge/100 with the rates
\* chosen for that month (here in millionths of a pound); and the example input
\* gives monthly costs 30.50 and 29.00 and a total of 59.50.
C3_MonthCostFormula ==
    /\ (cp.pc \in {"loop", "done"} /\ cp.i > 0)
          => cp.monthCost =
                 cp.peakUsage * RatesUsed.peakUnitRate
                   + cp.offPeakUsage * RatesUsed.offPeakUnitRate
                   + (cp.daysInMonth * RatesUsed.standingCharge) * 100
    /\ (ProjectionReturned /\ IsExampleInput)
          => /\ projectedCosts = << 3050, 2900 >>
             /\ totalProjectedCost = Amount(5950, 0)

\* the example has been projected
C3_Witness ==
    /\ ProjectionReturned /\ IsExampleInput
    /\ cp.pc = "done"
    /\ cp.daysInMonth = 28
    /\ cp.monthCost = 29000000
    /\ projectedCosts = << 3050, 2900 >>

RECURSIVE SumOf(_)
SumOf(seq) == IF seq = << >> THEN 0 ELSE Head(seq) + SumOf(Tail(seq))

Abs(x) == IF x < 0 THEN 0 - x ELSE x

\* total minus the sum of the rounded costs, in millionths of a pound
Discrepancy(total, costs) ==
    (total.cents - SumOf(costs)) * 10000 + total.micros

\* the running total and the rounded costs, in every state of a run and in the
\* result; half a cent, 0.005 pounds, is 5000 millionths of a pound
C4_StatePart ==
    /\ cp.pc \in {"loop", "done"}
          => /\ Abs(Discrepancy(cp.currentTotalCost, cp.projectedCostsCalc))
                    <= 5000 * cp.i
             /\ cp.i > 0
                  => Abs(cp.projectedCostsCalc[cp.i] * 10000 - cp.monthCost)
                         <= 5000
    /\ (ProjectionReturned /\ cp.pc = "done")
          => /\ totalProjectedCost = cp.currentTotalCost
             /\ projectedCosts = cp.projectedCostsCalc
             /\ Abs(Discrepancy(totalProjectedCost, projectedCosts))
                    <= 5000 * nMonths

\* a turn of the loop adds the unrounded cost of the month to the running total
C4_StepPart ==
    (cp.pc = "loop" /\ cp'.pc = "loop" /\ cp'.i = cp.i + 1)
        => (cp'.currentTotalCost.cents - cp.currentTotalCost.cents) * 10000
             + (cp'.currentTotalCost.micros - cp.currentTotalCost.micros)
           = cp'.monthCost

NoUsableEntry(text) == text = << >> \/ ~HasNumeral(text)

\* C5: when the usage text is empty or has no parseable numeric value, the
\* projection reports the InvalidInput error and yields empty projectedUsage, empty
\* projectedCosts and a totalProjectedCost of 0.
C5_EmptyInputIsInvalid ==
    (ProjectionReturned /\ NoUsableEntry(monthlyUsageProjectionBasis))
        => /\ error = EmptyBasisError
           /\ projectedUsage = << >>
           /\ projectedCosts = << >>
           /\ totalProjectedCost = Amount(0, 0)

\* the values of the entries written as numbers, in their order
RECURSIVE NumeralValues(_)
NumeralValues(fields) ==
    IF fields = << >> THEN << >>
    ELSE IF IsNumeral(Head(fields))
         THEN << Number(Head(fields)).value >> \o NumeralValues(Tail(fields))
         ELSE NumeralValues(Tail(fields))

\* C6: entries that are not numbers are dropped and take no place in the cycle: with
\* at least one numeric entry the projection ends without error and cycles over the
\* numeric entries alone, in their order.
C6_NonNumericEntriesDropped ==
    (ProjectionReturned /\ HasNumeral(monthlyUsageProjectionBasis))
        => LET numerals == NumeralValues(Split(monthlyUsageProjectionBasis))
           IN  /\ error = NoError
               /\ Len(projectedUsage) = nMonths
               /\ \A i \in 0..(nMonths - 1) :
                      projectedUsage[i + 1] = numerals[(i % Len(numerals)) + 1]

\* C10: in every month peakUsage + offPeakUsage is totalUsage (here in hundredths
\* of a kWh), the off-peak percentage being 100 - peakPercentage.
C10_SplitSumsToTotal ==
    (cp.pc \in {"loop", "done"})
        => /\ peakPercentage + cp.offPeakPercentage = 100
           /\ cp.i > 0
                => /\ cp.peakUsage + cp.offPeakUsage = cp.totalUsage * 100
                   /\ cp.totalUsage = cp.projectedMonths[cp.i]

\* a month of 7 kWh has been split 33 / 67
C10_Witness ==
    /\ cp.pc = "loop"
    /\ peakPercentage = 33
    /\ cp.totalUsage = 7
    /\ cp.peakUsage = 231
    /\ cp.offPeakUsage = 469

\* the index of the band the selection rule names for month index i
BandIndexOf(i) == IF i <= 2 THEN 0 ELSE IF i <= 5 THEN 1 ELSE 2

\* C16: in variable mode the rates of month index i are those of tariffQuarters[0]
\* for i in 0..2, tariffQuarters[1] for i in 3..5, tariffQuarters[2] for i in 6..8
\* and tariffQuarters[2] for every i >= 9.
C16_BandByMonthIndex ==
    (cp.pc \in {"loop", "done"} /\ cp.i > 0 /\ ~isFixedCharge)
        => LET i == cp.i - 1
               band == tariffQuarters[BandIndexOf(i) + 1]
           IN  /\ cp.applicableTariff = band
               /\ cp.monthCost = cp.peakUsage * band.peakUnitRate
                                   + cp.offPeakUsage * band.offPeakUnitRate
                                   + cp.daysInMonth * band.standingCharge * 100

\* a month past the ninth has been costed with the third band, which differs from
\* the first
C16_Witness ==
    /\ cp.pc = "loop" /\ ~isFixedCharge
    /\ cp.i - 1 >= 9
    /\ cp.applicableTariff = tariffQuarters[3]
    /\ tariffQuarters[3].peakUnitRate # tariffQuarters[1].peakUnitRate
    /\ cp.monthCost > 0

\* the cost of month index i at the fixed rates, in millionths of a pound
FixedModeMonthCost(kept, peak, rates, i) ==
    LET totalUsage == kept[(i % Len(kept)) + 1]
    IN  totalUsage * peak * rates.peakUnitRate
          + totalUsage * (100 - peak) * rates.offPeakUnitRate
          + DaysInMonth(i) * rates.standingCharge * 100

RECURSIVE FixedModeTotal(_, _, _, _)
\* the sum of the fixed-rate costs of the month indices 0..n-1
FixedModeTotal(kept, peak, rates, n) ==
    IF n = 0 THEN Amount(0, 0)
    ELSE AddCost(FixedModeTotal(kept, peak, rates, n - 1),
                 FixedModeMonthCost(kept, peak, rates, n - 1))

\* C17: in fixed-rate mode the result is a function of the usage pattern,
\* peakPercentage, nMonths and fixedRates alone, so two configurations that agree on
\* these have the same projectedCosts and total whatever currentTariffBand,
\* currentMonth and tariffQuarters are.
C17_FixedModeUsesFixedRatesOnly ==
    (ProjectionReturned /\ cp.pc = "done" /\ isFixedCharge)
        => LET kept == UsageBasisOf(monthlyUsageProjectionBasis)
           IN  /\ Len(projectedCosts) = nMonths
               /\ \A k \in 1..nMonths :
                      projectedCosts[k] =
                          ToFixed2(FixedModeMonthCost(kept, peakPercentage, fixedRates, k - 1))
               /\ totalProjectedCost =
                      FixedModeTotal(kept, peakPercentage, fixedRates, nMonths)

\* a fixed-rate projection of 100 kWh over two months has returned 36.60 and 35.10
\* with the January band as current band
C17_Witness ==
    /\ ProjectionReturned /\ cp.pc = "done" /\ isFixedCharge
    /\ currentMonth = 1 /\ currentTariffBand = WinterCurrentTariffBand
    /\ fixedRates = InitialFixedRates
    /\ fixedRates # Rates(tariffQuarters[1].peakUnitRate, tariffQuarters[1].standingCharge,
                          tariffQuarters[1].offPeakUnitRate)
    /\ projectedCosts = << 3660, 3510 >>
    /\ totalProjectedCost = Amount(7170, 0)

\* the days of January to December of a year that is not a leap year
NonLeapYearDays == << 31, 28, 31, 30, 31, 30, 31, 31, 30, 31, 30, 31 >>

\* C18: the day count of month index i is that of month (i mod 12) of a non-leap
\* year, so 28 whenever i mod 12 = 1, for every i below nMonths.
C18_DayCountCyclesNonLeapYear ==
    (cp.pc \in {"loop", "done"} /\ cp.i > 0)
        => cp.daysInMonth = NonLeapYearDays[((cp.i - 1) % 12) + 1]

\* C20: for any text of the usage field, every entry of projectedUsage of a
\* returned projection is greater than 0.
C20_UsageEntriesPositive ==
    ProjectionReturned
        => \A k \in 1..Len(projectedUsage) : projectedUsage[k] > 0

-----------------------------------------------------------------------------
(* Claims about calculateTariffBands, checked under SpecBands *)

\* calculateTariffBands has set tariffQuarters
BandsDerived == ~bandsPending /\ tb.pc = "done"

\* C7: band derivation produces exactly three bands in order: band0 has the three
\* rates of currentTariffBand unchanged and the name "Current Month", band1 is named
\* "Next Quarter" and band2 "Following Quarter".
C7_ThreeBandsInOrder ==
    BandsDerived
        => /\ Len(tariffQuarters) = 3
           /\ tariffQuarters[1].name = "Current Month"
           /\ tariffQuarters[1].peakUnitRate = currentTariffBand.peakUnitRate
           /\ tariffQuarters[1].standingCharge = currentTariffBand.standingCharge
           /\ tariffQuarters[1].offPeakUnitRate = currentTariffBand.offPeakUnitRate
           /\ tariffQuarters[2].name = "Next Quarter"
           /\ tariffQuarters[3].name = "Following Quarter"

\* the bands of a current band that is not the initial one have been derived
C7_Witness ==
    /\ BandsDerived
    /\ currentTariffBand = Rates(1500, -500, 15)
    /\ tariffQuarters[1] = Band("Current Month", 1500, -500, 15)

\* the month 3 * i months after a month, counted round the year
MonthAhead(month, i) ==
    CHOOSE m \in 1..12 : (m - (month + 3 * i)) % 12 = 0

\* C8: for every currentMonth in 1..12 and i in {1, 2}, futureMonth is
\* ((currentMonth - 1 + 3*i) mod 12) + 1, lies in 1..12, and the multiplier of band i
\* is 1.10 for futureMonth in {10, 11, 12, 1, 2, 3} and 0.95 for futureMonth in 4..9.
C8_FutureMonthAndMultiplier ==
    (tb.pc \in {"loop", "done"} /\ tb.i > 1)
        => /\ tb.futureMonth \in 1..12
           /\ tb.futureMonth = MonthAhead(currentMonth, tb.i - 1)
           /\ tb.futureMonth \in {10, 11, 12, 1, 2, 3} => tb.multiplier = 110
           /\ tb.futureMonth \in 4..9 => tb.multiplier = 95

\* band2 of November has been derived for May, across the turn of the year
C8_Witness ==
    /\ tb.pc = "loop"
    /\ tb.i = 3
    /\ currentMonth = 11
    /\ tb.futureMonth = 5
    /\ tb.multiplier = 95

\* the multiplier, in hundredths, of the season of a month
SeasonMultiplier(month) == IF month \in 4..9 THEN 95 ELSE 110

\* r is x / 100 rounded to the nearest integer, a tie going up
IsRounded(r, x) == 100 * r - 50 <= x /\ x < 100 * r + 50

\* C9: for i in {1, 2} every rate of band i is round2((currentBand.rate + 0.5*i) *
\* multiplier_i), round2(x) = round(x*100)/100; a current peakUnitRate of 27 in
\* month 7 gives band1 a peakUnitRate of 30.25.
C9_SeasonalRates ==
    BandsDerived
        => /\ \A i \in {1, 2} :
                LET m == SeasonMultiplier(MonthAhead(currentMonth, i))
                IN  /\ IsRounded(tariffQuarters[i + 1].peakUnitRate,
                                 (currentTariffBand.peakUnitRate + 50 * i) * m)
                    /\ IsRounded(tariffQuarters[i + 1].standingCharge,
                                 (currentTariffBand.standingCharge + 50 * i) * m)
                    /\ IsRounded(tariffQuarters[i + 1].offPeakUnitRate,
                                 (currentTariffBand.offPeakUnitRate + 50 * i) * m)
           /\ (currentTariffBand.peakUnitRate = 2700 /\ currentMonth = 7)
                => tariffQuarters[2].peakUnitRate = 3025

\* the bands of the example have been derived
C9_Witness ==
    /\ BandsDerived
    /\ currentMonth = 7
    /\ currentTariffBand = Rates(2700, 5500, 1500)
    /\ tariffQuarters[2] = Band("Next Quarter", 3025, 6105, 1705)
    /\ tariffQuarters[3] = Band("Following Quarter", 3080, 6160, 1760)

\* October to March
WinterMonths == {10, 11, 12, 1, 2, 3}

\* C30: for every currentMonth in 1..12 the month used for band2, six months ahead,
\* is in the opposite season: band2 has the summer multiplier 0.95 exactly when
\* currentMonth is a winter month and the winter multiplier 1.10 exactly when
\* currentMonth is a summer month.
C30_Band2OppositeSeason ==
    (tb.pc \in {"loop", "done"} /\ tb.i = 3)
        => /\ (tb.futureMonth \in WinterMonths) <=> (currentMonth \notin WinterMonths)
           /\ (tb.multiplier = 95) <=> (currentMonth \in WinterMonths)
           /\ (tb.multiplier = 110) <=> (currentMonth \notin WinterMonths)

\* band2 of September, the last summer month, has been derived for March, the last
\* winter month
C30_Witness ==
    /\ tb.pc = "loop"
    /\ tb.i = 3
    /\ currentMonth = 9
    /\ tb.futureMonth = 3
    /\ tb.multiplier = 110

-----------------------------------------------------------------------------
(* Properties of the application: Spec, SpecForecast and SpecAssistant *)

\* C11: loading a stored session that lacks fields does not fail: no exception
\* leaves handleLoadSession, a session without peakPercentage is loaded with
\* peakPercentage 70, and a loaded band without standingCharge gets standingCharge 0.
C11_LoadDefaultsMissingFields ==
    [][LoadSession =>
         /\ uncaught' = NoException
         /\ \A k \in 1..Len(savedSessions) :
               LET session == savedSessions[k]
               IN  sessionName' = session.name =>
                     /\ ~Has(session, "peakPercentage") => peakPercentage' = 70
                     /\ Has(session, "tariffQuarters") =>
                           \A b \in 1..3 :
                              ~Has(session.tariffQuarters[b], "standingCharge") =>
                                 tariffQuarters'[b].standingCharge = 0]_vars

\* C12: a saved session is never mutated after creation: every step leaves every
\* entry already in savedSessions, the rates inside its tariffQuarters included,
\* as it was.
C12_SavedSessionsImmutable ==
    [][\A k \in 1..Len(savedSessions) :
          /\ k <= Len(savedSessions')
          /\ savedSessions'[k] = savedSessions[k]]_vars

\* the three rates of a band or of fixedRates are non-negative
NonNegativeRates(rates) == \A field \in RateFields : rates[field] >= 0

\* C19: in every reachable state all three rates of currentTariffBand, of fixedRates
\* and of each of the three tariffQuarters bands are non-negative, whatever the user
\* enters in the rate inputs.
C19_RatesNonNegative ==
    /\ NonNegativeRates(currentTariffBand)
    /\ NonNegativeRates(fixedRates)
    /\ \A b \in 1..Len(tariffQuarters) : NonNegativeRates(tariffQuarters[b])

\* the generic failure messages of the two AI calls
GenericFailureErrors ==
    { TipsFailedError, TipsInvalidError, SummaryFailedError, SummaryInvalidError }

RatesOfMonth(i) ==
    IF isFixedCharge THEN fixedRates ELSE tariffQuarters[BandIndexOf(i) + 1]

RECURSIVE TotalOfMonths(_, _)
\* the sum of the costs the current inputs give the month indices 0..n-1
TotalOfMonths(kept, n) ==
    IF n = 0 THEN Amount(0, 0)
    ELSE AddCost(TotalOfMonths(kept, n - 1),
                 FixedModeMonthCost(kept, peakPercentage, RatesOfMonth(n - 1), n - 1))

\* C15: recomputation fully supersedes prior output: in every settled state with no
\* error, projectedUsage, projectedCosts and totalProjectedCost are the projection of
\* the current usage pattern, peakPercentage, nMonths, tariffQuarters, isFixedCharge
\* and fixedRates, after any sequence of input changes, band edits and session loads.
C15_OutputsOfCurrentInputs ==
    (Settled /\ error = NoError)
        => LET kept == UsageBasisOf(monthlyUsageProjectionBasis)
           IN  IF Len(kept) = 0
               THEN /\ projectedUsage = << >>
                    /\ projectedCosts = << >>
                    /\ totalProjectedCost = Amount(0, 0)
               ELSE /\ Len(projectedUsage) = nMonths
                    /\ Len(projectedCosts) = nMonths
                    /\ \A k \in 1..nMonths :
                          /\ projectedUsage[k] = kept[((k - 1) % Len(kept)) + 1]
                          /\ projectedCosts[k] =
                                ToFixed2(FixedModeMonthCost(kept, peakPercentage,
                                                            RatesOfMonth(k - 1), k - 1))
                    /\ totalProjectedCost = TotalOfMonths(kept, nMonths)

\* the session of an earlier run has been loaded and the effects have replaced the
\* costs it stored (32.05 and 30.40, all off peak) by those of the loaded inputs
C15_Witness ==
    /\ Settled /\ error = NoError
    /\ sessionName = EarlierSession.name
    /\ peakPercentage = 70
    /\ projectedUsage = << 100, 100 >>
    /\ projectedCosts = << 4045, 3880 >>
    /\ totalProjectedCost = Amount(7925, 0)

\* what the user can do with the page
UserAction ==
    \/ SetMonthlyUsageProjectionBasis
    \/ SetPeakPercentage
    \/ SetNMonths
    \/ SetCurrentMonth
    \/ SetIsFixedCharge
    \/ SetFixedRate
    \/ SetCurrentTariffRate
    \/ SetFutureBandRate
    \/ SetSessionName
    \/ SaveSession
    \/ ConfirmModal
    \/ LoadSession
    \/ SelectSession1
    \/ SelectSession2
    \/ SetGeminiApiKey
    \/ CancelApiKeyModal
    \/ SaveApiKey
    \/ RemoveApiKey
    \/ RequestUsageTips
    \/ RequestComparisonSummary

\* C13: no failure is fatal: in a state in which an error is set, the effects have
\* run and no AI call is in flight, the user can act on the page, which any sequence
\* of user actions that clears the error starts with; in particular the usage
\* pattern can be corrected when it is the unparseable pattern that is reported.
\* States where the event budget of the model is used up are left out.
C13_ErrorsRecoverable ==
    (Settled /\ error # NoError /\ aiRequest = NoRequest /\ events < MaxEvents)
        => /\ ENABLED UserAction
           /\ error = EmptyBasisError => ENABLED SetMonthlyUsageProjectionBasis

\* C21: in every state reachable by user actions (editing inputs, saving sessions,
\* loading sessions) peakPercentage is an integer in 0..100, nMonths is an integer
\* >= 1 and currentMonth is an integer in 1..12.
C21_InputRanges ==
    /\ peakPercentage \in 0..100
    /\ nMonths \in Nat /\ nMonths >= 1
    /\ currentMonth \in 1..12

\* 150 has been entered as peak percentage and 0 as number of months
C21_Witness ==
    /\ Settled
    /\ events = 2
    /\ peakPercentage = 100
    /\ nMonths = 1

SuccessfulSave ==
    SaveSession /\ sessionName \notin BlankNames /\ error' = NoError

\* C23: each successful save appends exactly one new session with a fresh id at the
\* end of savedSessions, keeps every earlier session in its earlier order, and
\* stores in localStorage exactly the serialisation of the resulting list; the list
\* never shrinks.
C23_SaveAppendsAndStores ==
    [][/\ Len(savedSessions') >= Len(savedSessions)
       /\ SuccessfulSave =>
            /\ Len(savedSessions') = Len(savedSessions) + 1
            /\ \A k \in 1..Len(savedSessions) :
                  /\ savedSessions'[k] = savedSessions[k]
                  /\ savedSessions'[k].id # savedSessions'[Len(savedSessions')].id
            /\ savedSessions'[Len(savedSessions')].name = sessionName
            /\ storage'.readable
            /\ Len(storage'.sessions) = Len(savedSessions')
            /\ \A k \in 1..Len(savedSessions') :
                  /\ DOMAIN storage'.sessions[k] = DOMAIN savedSessions'[k] \ RefFields
                  /\ \A f \in DOMAIN storage'.sessions[k] :
                        storage'.sessions[k][f] = savedSessions'[k][f]]_vars

\* a fourth session has been saved after the three of earlier runs and localStorage
\* holds the four
C23_Witness ==
    /\ Len(savedSessions) = 4
    /\ savedSessions[4].name \in SessionNames
    /\ Len(storage.sessions) = 4
    /\ storage.sessions[4].name \in SessionNames
    /\ modalTitle = SessionSavedModal

\* a step of handleSaveSession whose localStorage.setItem threw
FailedSave ==
    SaveSession /\ sessionName \notin BlankNames /\ storage' = storage

\* C24: a storage failure is surfaced and not retried: when reading or parsing the
\* stored data at startup fails, the page that follows the startup effects has the
\* error set and loading false; when writing on save fails, the error is set,
\* savedSessions is left unchanged and loading is false again.
C24_StorageFailureSurfaced ==
    [][/\ (Settled' /\ events' = 0 /\ ~storage'.readable)
            => (error' = LoadError /\ ~loading')
       /\ FailedSave
            => (error' = SaveError /\ savedSessions' = savedSessions /\ ~loading')]_vars

\* session k was saved by this version of the application: it has every field
SavedByApplication(k) ==
    \A f \in {"peakPercentage", "currentMonth", "isFixedCharge", "fixedRates",
               "currentTariffBand", "tariffQuarters", "projectedUsage",
               "projectedCosts", "totalProjectedCost"} : Has(savedSessions[k], f)

\* C25: save/load round trip: after a reload from storage, loading a session the
\* application saved restores the saved configuration, peakPercentage (any value
\* 0..100) and user-edited future tariff bands included, and the settled projection
\* after the load equals the projectedUsage and projectedCosts stored in the session.
C25_SaveLoadRoundTrip ==
    \A k \in 1..Len(savedSessions) :
        (Settled /\ events = 1 /\ sessionName = savedSessions[k].name
            /\ SavedByApplication(k))
          => LET session == savedSessions[k]
             IN  /\ monthlyUsageProjectionBasis = session.monthlyUsageProjectionBasis
                 /\ peakPercentage = session.peakPercentage
                 /\ nMonths = session.nMonths
                 /\ currentMonth = session.currentMonth
                 /\ isFixedCharge = session.isFixedCharge
                 /\ fixedRates = session.fixedRates
                 /\ currentTariffBand = session.currentTariffBand
                 /\ tariffQuarters = session.tariffQuarters
                 /\ projectedUsage = session.projectedUsage
                 /\ projectedCosts = session.projectedCosts

\* C26: displayed usage tips are never stale: in every state where usageTips is
\* non-empty the tips answer a prompt that quotes the projection inputs of that
\* state, even when inputs are changed while the request is in flight.
C26_TipsNeverStale ==
    (Settled /\ usageTips # "") => tipsPrompt = TipsPrompt

\* C27: in every settled state, after any sequence of current-band edits, month
\* changes, future-band edits, saves and loads, the three rates of tariffQuarters[0]
\* equal the three rates of currentTariffBand.
C27_FirstBandIsCurrentBand ==
    Settled => /\ Len(tariffQuarters) = 3
               /\ \A field \in RateFields :
                     tariffQuarters[1][field] = currentTariffBand[field]

\* a session saved on this page has been loaded back: the state holds the current
\* band object of the session, so the bands are the loaded copies, not derived ones
C27_Witness ==
    /\ Settled
    /\ events = 3
    /\ Len(savedSessions) = 4
    /\ sessionName = savedSessions[4].name
    /\ currentTariffBandRef = 4
    /\ tariffQuartersRef = NoRef

\* C28: every AI request releases the loading flag: whenever a started request
\* completes in any way (success, non-success status, malformed body or rejection)
\* llmLoading is false again, and it is false whenever no request is in flight, so
\* the AI buttons are not left disabled.
C28_LoadingReleased ==
    [][/\ AiResponds => ~llmLoading'
       /\ aiRequest' = NoRequest => ~llmLoading']_vars

\* a request has ended in a rejection and the loading flag is down
C28_Witness ==
    /\ aiResponse.kind = "rejected"
    /\ aiRequest = NoRequest
    /\ ~llmLoading
    /\ error \in {TipsFailedError, SummaryFailedError}

\* C29: saving with an empty or whitespace-only session name is rejected with the
\* "Missing Name" modal and changes nothing else: savedSessions, localStorage, the
\* error state and all projection inputs and outputs are unchanged.
C29_BlankNameSaveRejected ==
    [][(SaveSession /\ sessionName \in BlankNames) =>
          /\ modalTitle' = MissingNameModal
          /\ UNCHANGED << savedSessions, storage, error, sessionName, loading,
                          inputVars, tariffQuarters, projectedUsage, projectedCosts,
                          totalProjectedCost >>]_vars

\* a save with a name of one blank has been rejected
C29_Witness ==
    /\ modalTitle = MissingNameModal
    /\ sessionName = " "
    /\ storage = EarlierRunsStorage
    /\ Len(savedSessions) = 3

====
